---------------------------- MODULE Spec2Model ----------------------------
(***************************************************************************)
(* A model of the YouTube audio downloader: the command-line entry point   *)
(* and the YouTubeDownloader class of src/src/run_download.py, and the     *)
(* form front-end of src/app.py.                                           *)
(*                                                                         *)
(* Text is modelled as sequences: a title, a format name and an output     *)
(* directory argument are sequences of characters; a URL is the sequence   *)
(* of lexical tokens that follow "https:" and the two slashes.  The remote *)
(* site, the transcoder's presence and the file system are environment     *)
(* state chosen in the initial state.                                      *)
(***************************************************************************)
EXTENDS Naturals, Sequences, FiniteSets

VARIABLES
    \* ---- environment
    ffmpeg,        \* TRUE iff "ffmpeg -version" exits with status 0
    remoteTitle,   \* the "title" the extractor reports for a collection
    fs,            \* the directories that exist (absolute component lists)
    made,          \* the directories created by mkdir calls of this run
    \* ---- the command-line process (run_download.py)
    entry,         \* "cli": main() runs; "api": the class is used directly
    args,          \* [urls, output, format, quality] as given by the caller
    pc,            \* position of the process
    status,        \* "running", "exit0", "exit1" or the uncaught exception
    self,          \* the YouTubeDownloader's attributes, or NoObject
    heap,          \* the dict objects: ydl_opts, its post-processor, playlist_opts
    snap,          \* self and heap as they were when __init__ returned
    urls,          \* download(): the list iterated
    i,             \* download(): 1-based index of the current URL
    total,         \* download(): len(urls)
    successful,    \* download(): the success counter
    playlist_dir,  \* download_playlist(): the collection's subdirectory
    trace,         \* observable effects so far, in order
    \* ---- the form front-end (app.py)
    app_pc,        \* position of the script run
    form,          \* [url, audio_format, mp3_quality]: the widgets' values
    script,        \* the script's variables selected_format and quality
    ui,            \* what the page shows, in order
    launches,      \* argument vectors handed to subprocess.Popen
    child,         \* the child's unread stdout lines and its exit status
    app_exc        \* the exception the script run ended with, or "none"

envVars == <<ffmpeg, remoteTitle, fs, made>>
cliVars == <<entry, args, pc, status, self, heap, snap, urls, i, total,
             successful, playlist_dir, trace>>
appVars == <<app_pc, form, script, ui, launches, child, app_exc>>
vars == <<envVars, cliVars, appVars>>

-----------------------------------------------------------------------------
(* Bounds of the model *)

MaxUrls == 2
MaxUrlLen == 4
MaxTitleLen == 3
MaxLines == 2

-----------------------------------------------------------------------------
(* Generic helpers *)

SeqsUpTo(S, n) == UNION {[1..k -> S] : k \in 0..n}

Last(s) == s[Len(s)]

Front(s) == SubSeq(s, 1, Len(s) - 1)

\* index of the first element of s that is in S, or Len(s)+1
RECURSIVE FirstIn(_, _, _)
FirstIn(s, S, k) ==
    IF k > Len(s) THEN k
    ELSE IF s[k] \in S THEN k
    ELSE FirstIn(s, S, k + 1)

Elems(s) == {s[k] : k \in 1..Len(s)}

\* str.split(sep) for a one-character/one-token separator
RECURSIVE SplitOn(_, _, _, _)
SplitOn(s, sep, k, cur) ==
    IF k > Len(s) THEN <<cur>>
    ELSE IF s[k] = sep THEN <<cur>> \o SplitOn(s, sep, k + 1, <<>>)
    ELSE SplitOn(s, sep, k + 1, Append(cur, s[k]))

Split(s, sep) == SplitOn(s, sep, 1, <<>>)

-----------------------------------------------------------------------------
(* Python values *)

None == <<"None">>
Str(s) == <<"str", s>>

NoObject == [none |-> TRUE]

DEFAULT_AUDIO_FORMAT == <<"m", "p", "3">>
DEFAULT_DOWNLOAD_DIR == <<".", ".", "/", "d">>
DEFAULT_QUALITY == "320k"

\* str.lower(), on the letters format names are written with
LowerChar(c) ==
    CASE c = "M" -> "m" [] c = "P" -> "p" [] c = "W" -> "w" [] c = "A" -> "a"
      [] c = "V" -> "v" [] c = "F" -> "f" [] c = "L" -> "l" [] c = "C" -> "c"
      [] c = "O" -> "o" [] c = "G" -> "g"
      [] OTHER -> c

LowerIdentity(s) == s

Lower(s) == [k \in 1..Len(s) |-> LowerChar(s[k])]

-----------------------------------------------------------------------------
(* pathlib and the file system *)

DotDot == <<".", ".">>

KeepPart(c) == c # <<>> /\ c # <<".">>

\* Path(s): the components between slashes, empty and "." components dropped
PathOf(s) ==
    LET comps == Split(s, "/")
        keep  == SelectSeq(comps, KeepPart)
    IN  [abs |-> Len(s) > 0 /\ s[1] = "/", parts |-> keep]

\* p / s for a path p and a string s
JoinPath(p, s) ==
    LET q == PathOf(s)
    IN  IF q.abs THEN q ELSE [abs |-> p.abs, parts |-> p.parts \o q.parts]

\* the process's working directory, /w/s
Cwd == << <<"w">>, <<"s">> >>

BaseDirs == {<<>>, << <<"w">> >>, Cwd}

Parent(d) == IF d = <<>> THEN <<>> ELSE Front(d)

\* the directory reached from cur by following parts, every step of which
\* must exist
RECURSIVE Walk(_, _, _)
Walk(dirs, cur, parts) ==
    IF parts = <<>> THEN [ok |-> TRUE, at |-> cur]
    ELSE LET c   == Head(parts)
             nxt == IF c = DotDot THEN Parent(cur) ELSE Append(cur, c)
         IN  IF nxt \in dirs THEN Walk(dirs, nxt, Tail(parts))
             ELSE [ok |-> FALSE, at |-> cur]

PathBase(p) == IF p.abs THEN <<>> ELSE Cwd

DirExists(dirs, p) == Walk(dirs, PathBase(p), p.parts).ok

\* Path.mkdir(exist_ok=True): FileNotFoundError when a parent is missing
Mkdir(dirs, p) ==
    IF p.parts = <<>> THEN [ok |-> TRUE, dirs |-> dirs]
    ELSE LET w == Walk(dirs, PathBase(p), Front(p.parts))
             l == Last(p.parts)
             t == IF l = DotDot THEN Parent(w.at) ELSE Append(w.at, l)
         IN  IF w.ok THEN [ok |-> TRUE, dirs |-> dirs \cup {t}]
             ELSE [ok |-> FALSE, dirs |-> dirs]

\* Path.absolute(): the working directory is prefixed, nothing is normalised
Absolute(p) == IF p.abs THEN p ELSE [abs |-> TRUE, parts |-> Cwd \o p.parts]

-----------------------------------------------------------------------------
(* urllib.parse, as is_playlist uses it.  A URL is "https://" followed by  *)
(* the tokens of the sequence; "list" and "x" are pieces of text, the      *)
(* other tokens are the delimiter characters.                              *)

UrlTokens == {"list", "x", "=", "&", "?", "#", "/", "["}

\* urlsplit: the network location runs up to the first of / ? #
UrlNetloc(u) == SubSeq(u, 1, FirstIn(u, {"/", "?", "#"}, 1) - 1)

\* urlsplit raises ValueError("Invalid IPv6 URL") on an unbalanced bracket
UrlParseRaises(u) ==
    LET n == Elems(UrlNetloc(u))
    IN  \/ "[" \in n /\ "]" \notin n
        \/ "]" \in n /\ "[" \notin n

\* urlparse(u).query: what follows the first ? before the first #
UrlQuery(u) ==
    LET rest == SubSeq(u, Len(UrlNetloc(u)) + 1, Len(u))
        body == SubSeq(rest, 1, FirstIn(rest, {"#"}, 1) - 1)
        q    == FirstIn(body, {"?"}, 1)
    IN  IF q > Len(body) THEN <<>> ELSE SubSeq(body, q + 1, Len(body))

\* the keys of parse_qs(qs): fields are separated by &, a field without =
\* or with an empty value is dropped (keep_blank_values is False)
ParseQsKeys(qs) ==
    LET fields == Split(qs, "&")
        Kept(f) == /\ f # <<>>
                   /\ FirstIn(f, {"="}, 1) <= Len(f)
                   /\ FirstIn(f, {"="}, 1) < Len(f)
        Name(f) == SubSeq(f, 1, FirstIn(f, {"="}, 1) - 1)
    IN  {Name(fields[k]) : k \in {j \in 1..Len(fields) : Kept(fields[j])}}

is_playlist(url) == <<"list">> \in ParseQsKeys(UrlQuery(url))

-----------------------------------------------------------------------------
(* YouTubeDownloader *)

Mp3 == <<"m", "p", "3">>
Wav == <<"w", "a", "v">>
Flac == <<"f", "l", "a", "c">>

TitleOnlyTemplate == "%(title)s.%(ext)s"
SingleTemplate == "%(uploader)s - %(title)s.%(ext)s"
NumberedTemplate == "%(playlist_index)02d - %(title)s.%(ext)s"

\* the post-processor dict of ydl_opts["postprocessors"][0]
InitPostprocessor(audio_format, quality) ==
    LET pp0 == [key |-> "FFmpegExtractAudio",
                preferredcodec |-> audio_format,
                preferredquality |->
                    IF audio_format = Mp3 THEN Str(quality) ELSE None]
    IN  IF audio_format \in {Wav, Flac}
        THEN [pp0 EXCEPT !.preferredquality = None]
        ELSE pp0

\* self.ydl_opts as __init__ leaves it; postprocessors holds a reference
InitYdlOpts(output_dir, audio_format, quality) ==
    LET o0 == [format |-> "bestaudio/best",
               outtmpl |-> [dir |-> output_dir, name |-> TitleOnlyTemplate],
               extractaudio |-> TRUE,
               audioformat |-> audio_format,
               audioquality |->
                   IF audio_format = Mp3 THEN Str(quality) ELSE Str("0"),
               postprocessors |-> <<"pp">>,
               ffmpeg_location |-> None]
    IN  [o0 EXCEPT !.outtmpl = [dir |-> output_dir, name |-> SingleTemplate]]

\* d[k] = v on a dict
DictSet(d, k, v) == [x \in DOMAIN d \cup {k} |-> IF x = k THEN v ELSE d[x]]

\* dict.copy() returns a new dict object; its values are shared
CopyAlias(ref) == ref

CopyRef(ref) == "playlist_opts"

InvalidChars == <<"<", ">", ":", "\"", "/", "\\", "|", "?", "*">>

\* str.replace(c, r) for a one-character c
Replace(s, c, r) == [k \in 1..Len(s) |-> IF s[k] = c THEN r ELSE s[k]]

RECURSIVE SanitizeFrom(_, _, _)
SanitizeFrom(filename, chars, k) ==
    IF k > Len(chars) THEN filename
    ELSE SanitizeFrom(Replace(filename, chars[k], "_"), chars, k + 1)

sanitize_filename_short(filename) ==
    SanitizeFrom(filename, SubSeq(InvalidChars, 1, Len(InvalidChars) - 1), 1)

sanitize_filename(filename) == SanitizeFrom(filename, InvalidChars, 1)

\* info.get("title", "Unknown Playlist")
MissingTitle == <<"<missing>">>
UnknownPlaylist == <<"Unknown Playlist">>

PlaylistTitle(info_title) ==
    IF info_title = MissingTitle THEN UnknownPlaylist ELSE info_title

-----------------------------------------------------------------------------
(* The command-line process: main() and YouTubeDownloader *)

Event(t) == [t |-> t]

\* os.system("ffmpeg -version > /dev/null 2>&1") != 0
FfmpegNeverMissing(present) == FALSE

FfmpegMissing(present) == ~present

\* main(), lines 195-201: the pre-flight check
MainCheckFfmpeg ==
    /\ pc = "main"
    /\ IF FfmpegMissing(ffmpeg)
       THEN /\ trace' = Append(trace, Event("ffmpeg_hint"))
            /\ status' = "exit1"
            /\ pc' = "exited"
       ELSE /\ pc' = "init"
            /\ UNCHANGED <<trace, status>>
    /\ UNCHANGED <<envVars, entry, args, self, heap, snap, urls, i, total,
                   successful, playlist_dir, appVars>>

\* YouTubeDownloader.__init__
Construct ==
    /\ pc = "init"
    /\ LET output_dir == PathOf(args.output)
           m == Mkdir(fs, output_dir)
           audio_format == Lower(args.format)
           obj == [output_dir |-> output_dir,
                   audio_format |-> audio_format,
                   quality |-> args.quality]
           h == [ydl_opts |-> InitYdlOpts(output_dir, audio_format, args.quality),
                 pp |-> InitPostprocessor(audio_format, args.quality),
                 playlist_opts |-> NoObject]
       IN  IF m.ok
           THEN /\ fs' = m.dirs
                /\ made' = made \cup (m.dirs \ fs)
                /\ self' = obj
                /\ heap' = h
                /\ snap' = [self |-> obj, heap |-> h]
                /\ pc' = "download"
                /\ UNCHANGED status
           ELSE /\ status' = "FileNotFoundError"
                /\ pc' = "crashed"
                /\ UNCHANGED <<fs, made, self, heap, snap>>
    /\ UNCHANGED <<ffmpeg, remoteTitle, entry, args, urls, i, total,
                   successful, playlist_dir, trace, appVars>>

\* download(), lines 142-146
DownloadEnter ==
    /\ pc = "download"
    /\ urls' = IF args.urls.kind = "str" THEN <<args.urls.val>>
               ELSE args.urls.val
    /\ successful' = 0
    /\ total' = Len(urls')
    /\ i' = 1
    /\ pc' = "loop"
    /\ UNCHANGED <<envVars, entry, args, status, self, heap, snap,
                   playlist_dir, trace, appVars>>

\* download(), lines 148-154: one turn of the loop up to the dispatch
DownloadLoop ==
    /\ pc = "loop"
    /\ i <= total
    /\ LET url == urls[i]
           progress == [t |-> "progress", i |-> i, total |-> total, url |-> url]
       IN  IF UrlParseRaises(url)
           THEN /\ trace' = Append(trace, progress)
                /\ status' = "ValueError"
                /\ pc' = "crashed"
           ELSE /\ trace' = trace \o
                      <<progress,
                        [t |-> "call", i |-> i, url |-> url,
                         fn |-> IF is_playlist(url) THEN "download_playlist"
                                ELSE "download_single_video"]>>
                /\ pc' = IF is_playlist(url) THEN "playlist" ELSE "single"
                /\ UNCHANGED status
    /\ UNCHANGED <<envVars, entry, args, self, heap, snap, urls, i, total,
                   successful, playlist_dir, appVars>>

\* download(), lines 159-161, and the return to the caller
DownloadSummary ==
    /\ pc = "loop"
    /\ i > total
    /\ trace' = Append(trace, [t |-> "summary", successful |-> successful,
                               total |-> total,
                               dir |-> Absolute(self.output_dir)])
    /\ status' = "exit0"
    /\ pc' = "done"
    /\ UNCHANGED <<envVars, entry, args, self, heap, snap, urls, i, total,
                   successful, playlist_dir, appVars>>

\* what download() does with the value a download method returned
Returned(ok, events) ==
    /\ trace' = trace \o events \o <<[t |-> "return", i |-> i, ok |-> ok]>>
    /\ successful' = IF ok THEN successful + 1 ELSE successful
    /\ i' = i + 1
    /\ pc' = "loop"

\* download_single_video: the extraction or the download may raise, which
\* is caught; a successful download writes through self.ydl_opts
DownloadSingleVideo ==
    /\ pc = "single"
    /\ \E r \in {"extract_error", "download_error", "ok"} :
          IF r = "ok"
          THEN Returned(TRUE, <<[t |-> "write", by |-> "download_single_video",
                                 outtmpl |-> heap.ydl_opts.outtmpl]>>)
          ELSE Returned(FALSE, <<[t |-> "error", i |-> i, why |-> r]>>)
    /\ UNCHANGED <<envVars, entry, args, status, self, heap, snap, urls,
                   total, playlist_dir, appVars>>

PlaylistOptsRef == CopyRef("ydl_opts")

\* download_playlist, lines 98-121: copy the options, read the collection's
\* title, create its subdirectory, set the numbered template
DownloadPlaylistPrepare ==
    /\ pc = "playlist"
    /\ LET ref == PlaylistOptsRef
           h0  == [heap EXCEPT ![ref] = heap.ydl_opts]
           h1  == [h0 EXCEPT ![ref] = DictSet(@, "extract_flat", FALSE)]
           dir == JoinPath(self.output_dir,
                           sanitize_filename(PlaylistTitle(remoteTitle)))
           m   == Mkdir(fs, dir)
       IN  \E r \in {"extract_error", "ok"} :
              IF r = "ok" /\ m.ok
              THEN /\ fs' = m.dirs
                   /\ made' = made \cup (m.dirs \ fs)
                   /\ playlist_dir' = dir
                   /\ heap' = [h1 EXCEPT ![ref] = DictSet(@, "outtmpl",
                                  [dir |-> dir, name |-> NumberedTemplate])]
                   /\ trace' = Append(trace, [t |-> "mkdir", dir |-> dir])
                   /\ pc' = "playlist_dl"
                   /\ UNCHANGED <<successful, i>>
              ELSE /\ heap' = h1
                   /\ Returned(FALSE, <<[t |-> "error", i |-> i,
                                         why |-> IF r = "ok" THEN "mkdir_error"
                                                 ELSE r]>>)
                   /\ UNCHANGED <<fs, made, playlist_dir>>
    /\ UNCHANGED <<ffmpeg, remoteTitle, entry, args, status, self, snap,
                   urls, total, appVars>>

\* download_playlist, lines 123-132: the download through playlist_opts
DownloadPlaylistRun ==
    /\ pc = "playlist_dl"
    /\ \E r \in {"download_error", "ok"} :
          IF r = "ok"
          THEN Returned(TRUE, <<[t |-> "write", by |-> "download_playlist",
                                 outtmpl |-> heap[PlaylistOptsRef].outtmpl]>>)
          ELSE Returned(FALSE, <<[t |-> "error", i |-> i, why |-> r]>>)
    /\ UNCHANGED <<envVars, entry, args, status, self, heap, snap, urls,
                   total, playlist_dir, appVars>>

NextCli ==
    \/ MainCheckFfmpeg
    \/ Construct
    \/ DownloadEnter
    \/ DownloadLoop
    \/ DownloadSummary
    \/ DownloadSingleVideo
    \/ DownloadPlaylistPrepare
    \/ DownloadPlaylistRun

-----------------------------------------------------------------------------
(* Inputs and initial states of the command-line process *)

CliFormats == {Mp3, Wav, Flac}

UpperChar(c) ==
    CASE c = "m" -> "M" [] c = "p" -> "P" [] c = "w" -> "W" [] c = "a" -> "A"
      [] c = "v" -> "V" [] c = "f" -> "F" [] c = "l" -> "L" [] c = "c" -> "C"
      [] c = "o" -> "O" [] c = "g" -> "G"
      [] OTHER -> c

\* every spelling of a lower-case name in upper and lower case
Spellings(f) ==
    {s \in [1..Len(f) -> UNION {{f[k], UpperChar(f[k])} : k \in 1..Len(f)}] :
        \A k \in 1..Len(f) : s[k] \in {f[k], UpperChar(f[k])}}

Ogg == <<"o", "g", "g">>

AnyCaseFormats ==
    Spellings(Mp3) \cup Spellings(Wav) \cup Spellings(Flac) \cup Spellings(Ogg)

Qualities == {"320k", "256k", "192k", "128k", "best", "0"}

UrlSingle == <<"x", "/", "x">>
UrlPlaylist == <<"x", "/", "x", "?", "list", "=", "x">>
UrlBlankList == <<"x", "/", "x", "?", "list", "=">>
UrlUnparsable == <<"[", "x", "/", "x">>

BatchUrls == {UrlSingle, UrlPlaylist, UrlBlankList, UrlUnparsable}

ListArg(l) == [kind |-> "list", val |-> l]
StrArg(u) == [kind |-> "str", val |-> u]

Batches == {ListArg(l) : l \in SeqsUpTo(BatchUrls, MaxUrls) \ {<<>>}}

\* output directory arguments with the directories that exist beforehand
Outputs ==
    { [output |-> DEFAULT_DOWNLOAD_DIR, dirs |-> BaseDirs],
      [output |-> <<"d">>, dirs |-> BaseDirs \cup {Append(Cwd, <<"d">>)}],
      [output |-> <<"a", "/", "b">>, dirs |-> BaseDirs \cup {Append(Cwd, <<"a">>)}],
      [output |-> <<"a", "/", "b">>, dirs |-> BaseDirs] }

SmallTitles == {<<"M", "i", "x">>, <<"A", "/", "B">>, MissingTitle}

AppIdle ==
    /\ app_pc = "off"
    /\ form = [url |-> <<>>, audio_format |-> "MP3 (Lossy)", mp3_quality |-> "320k"]
    /\ script = NoObject
    /\ ui = <<>>
    /\ launches = <<>>
    /\ child = NoObject
    /\ app_exc = "none"

\* The caller is either the shell (main() runs, argparse has accepted the
\* arguments) or a program that constructs the class and calls download().
InitProcess(urlArgs, formats, qualities, titles, outputs) ==
    /\ ffmpeg \in BOOLEAN
    /\ remoteTitle \in titles
    /\ \E o \in outputs, e \in {"cli", "api"}, u \in urlArgs,
          f \in formats, q \in qualities :
          /\ e = "cli" => (u.kind = "list" /\ f \in CliFormats)
          /\ entry = e
          /\ args = [urls |-> u, output |-> o.output, format |-> f,
                     quality |-> q]
          /\ fs = o.dirs
          /\ pc = IF e = "cli" THEN "main" ELSE "init"
    /\ made = {}
    /\ status = "running"
    /\ self = NoObject
    /\ heap = [ydl_opts |-> NoObject, pp |-> NoObject, playlist_opts |-> NoObject]
    /\ snap = NoObject
    /\ urls = <<>>
    /\ i = 0
    /\ total = 0
    /\ successful = 0
    /\ playlist_dir = NoObject
    /\ trace = <<>>
    /\ AppIdle

InitCli ==
    InitProcess(Batches \cup {StrArg(u) : u \in BatchUrls},
                CliFormats, {DEFAULT_QUALITY, "best"}, SmallTitles, Outputs)

Spec == InitCli /\ [][NextCli]_vars

\* one URL of every shape up to MaxUrlLen tokens
InitClassify ==
    InitProcess({ListArg(<<u>>) : u \in SeqsUpTo(UrlTokens, MaxUrlLen)},
                {Mp3}, {DEFAULT_QUALITY}, {<<"M", "i", "x">>},
                {[output |-> DEFAULT_DOWNLOAD_DIR, dirs |-> BaseDirs]})

SpecClassify == InitClassify /\ [][NextCli]_vars

TitleChars == {"<", ">", ":", "\"", "/", "\\", "|", "?", "*", "A", "."}

ExampleTitle == <<"A", "/", "B", ":", " ", "\"", "M", "i", "x", "\"">>

\* a collection of every title up to MaxTitleLen characters
InitSanitize ==
    \/ InitProcess({ListArg(<<UrlPlaylist>>)}, {Mp3}, {DEFAULT_QUALITY},
                   SeqsUpTo(TitleChars, MaxTitleLen) \cup {ExampleTitle, MissingTitle},
                   {[output |-> DEFAULT_DOWNLOAD_DIR, dirs |-> BaseDirs]})
    \/ InitProcess({ListArg(<<UrlSingle>>)}, {Mp3}, {DEFAULT_QUALITY},
                   {ExampleTitle},
                   {[output |-> DEFAULT_DOWNLOAD_DIR, dirs |-> BaseDirs]})

SpecSanitize == InitSanitize /\ [][NextCli]_vars

\* every format spelling with every quality
InitConfig ==
    InitProcess({ListArg(<<UrlSingle>>), ListArg(<<UrlPlaylist>>)},
                AnyCaseFormats, Qualities, {<<"M", "i", "x">>},
                {[output |-> DEFAULT_DOWNLOAD_DIR, dirs |-> BaseDirs]})

SpecConfig == InitConfig /\ [][NextCli]_vars

-----------------------------------------------------------------------------
(* Properties of the command-line process *)

Events(kind) == SelectSeq(trace, LAMBDA e : e.t = kind)

Positions(kind) == {k \in 1..Len(trace) : trace[k].t = kind}

\* the batch as the caller gave it
GivenUrls == IF args.urls.kind = "str" THEN <<args.urls.val>> ELSE args.urls.val

\* download() has been entered and the process has stopped
DownloadStopped == i >= 1 /\ pc \in {"done", "crashed"}

\* C1: when download() has run on a batch of N URLs of which K downloads
\* returned False, every URL was dispatched exactly once and the summary
\* line reports N-K successful out of N.
C1_AllDispatchedAndCounted ==
    DownloadStopped =>
        LET N == Len(GivenUrls)
            K == Cardinality({k \in Positions("return") : ~trace[k].ok})
        IN  /\ \A n \in 1..N :
                  Cardinality({k \in Positions("call") :
                                  trace[k].i = n /\ trace[k].url = GivenUrls[n]}) = 1
            /\ Cardinality(Positions("call")) = N
            /\ trace # <<>>
            /\ Last(trace).t = "summary"
            /\ Last(trace).successful = N - K
            /\ Last(trace).total = N

\* C2: a failure on one URL never aborts the batch: the progress messages
\* [1/N] .. [N/N] are all emitted in that order, each before its URL is
\* dispatched and after the previous URL's download has finished, and the
\* summary comes after the last one.
C2_BatchNeverAborted ==
    DownloadStopped =>
        LET N == Len(GivenUrls)
            P == Events("progress")
        IN  /\ Len(P) = N
            /\ \A n \in 1..N : P[n].i = n /\ P[n].total = N /\ P[n].url = GivenUrls[n]
            /\ \A k \in Positions("progress") :
                  /\ k < Len(trace) /\ trace[k + 1].t = "call"
                  /\ trace[k + 1].i = trace[k].i
                  /\ k > 1 => (trace[k - 1].t = "return"
                               /\ trace[k - 1].i + 1 = trace[k].i)
            /\ Last(trace).t = "summary"

\* C7: the output directory is created if it is missing, also when its
\* parents are missing, so it exists once the constructor has run, before
\* any URL is dispatched and before any write; a collection's subdirectory
\* exists before the collection's download starts.
C7_OutputDirCreated ==
    /\ pc \notin {"main", "init", "exited"} => DirExists(fs, PathOf(args.output))
    /\ Positions("call") # {} => DirExists(fs, PathOf(args.output))
    /\ \A k \in Positions("write") : DirExists(fs, trace[k].outtmpl.dir)
    /\ pc = "playlist_dl" => DirExists(fs, playlist_dir)

\* C4: when the transcoder check fails, main() prints the hint and exits
\* with status 1 and nothing else happens: no downloader is constructed, no
\* directory is created, no URL is classified or downloaded.
C4_NoWorkWithoutTranscoder ==
    (entry = "cli" /\ ~ffmpeg) =>
        /\ pc \in {"main", "exited"}
        /\ self = NoObject
        /\ made = {}
        /\ \A k \in 1..Len(trace) : trace[k].t = "ffmpeg_hint"
        /\ pc = "exited" => (status = "exit1" /\ trace = <<Event("ffmpeg_hint")>>)
        /\ pc = "main" => (status = "running" /\ trace = <<>>)

C4_Witness ==
    /\ entry = "cli" /\ ~ffmpeg /\ pc = "exited"
    /\ Len(args.urls.val) >= 2
    /\ ~DirExists(fs, PathOf(args.output))

\* C9: the downloader's attributes and self.ydl_opts, with its
\* post-processor, stay as the constructor left them; a single item is
\* always written with the single-item template in the output directory.
C9_ConfigurationImmutable ==
    self # NoObject =>
        /\ self = snap.self
        /\ heap.ydl_opts = snap.heap.ydl_opts
        /\ heap.pp = snap.heap.pp
        /\ heap.ydl_opts.postprocessors = <<"pp">>
        /\ heap.ydl_opts.outtmpl =
              [dir |-> PathOf(args.output), name |-> SingleTemplate]
        /\ \A k \in Positions("write") :
              trace[k].by = "download_single_video" =>
                  trace[k].outtmpl =
                      [dir |-> PathOf(args.output), name |-> SingleTemplate]

C9_Witness ==
    \E j, k \in Positions("write") :
        /\ j < k
        /\ trace[j].by = "download_playlist"
        /\ trace[j].outtmpl.name = NumberedTemplate
        /\ trace[j].outtmpl.dir # PathOf(args.output)
        /\ trace[k].by = "download_single_video"

\* the query string of a URL carries a field named list, whatever its value
CarriesListField(u) ==
    \E k \in 1..Len(Split(UrlQuery(u), "&")) :
        LET f == Split(UrlQuery(u), "&")[k]
        IN  Len(f) >= 2 /\ f[1] = "list" /\ f[2] = "="

\* C3: a URL goes to download_playlist exactly when its query string
\* carries the parameter list, whatever its value (an empty one included),
\* and to download_single_video otherwise.
C3_ListParameterDecides ==
    \A k \in Positions("call") :
        trace[k].fn = (IF CarriesListField(trace[k].url)
                       THEN "download_playlist" ELSE "download_single_video")

\* C5: for mp3, in any letter case, both quality fields carry the requested
\* quality; for wav and flac they are "0" and None whatever was requested.
C5_QualityFollowsFormat ==
    self # NoObject =>
        LET q == args.quality
            o == heap.ydl_opts
            p == heap[o.postprocessors[1]]
        IN  /\ args.format \in Spellings(Mp3) =>
                  (o.audioquality = Str(q) /\ p.preferredquality = Str(q))
            /\ args.format \in Spellings(Wav) \cup Spellings(Flac) =>
                  (o.audioquality = Str("0") /\ p.preferredquality = None)

C5_Witness ==
    /\ self # NoObject
    /\ args.format = <<"W", "a", "V">>
    /\ args.quality = "320k"
    /\ heap.pp.preferredquality = None

PathBreaking == {"<", ">", ":", "\"", "/", "\\", "|", "?", "*"}

\* position by position: a path-breaking character becomes "_", any other
\* character stays
Underscored(t) ==
    [k \in 1..Len(t) |-> IF t[k] \in PathBreaking THEN "_" ELSE t[k]]

\* C6: sanitize_filename keeps the length, replaces each of < > : " / \ | ? *
\* by "_" and keeps every other character in place; applying it twice
\* changes nothing more; the collection's subdirectory is the output
\* directory joined with the sanitized title.
C6_SanitizedSubdirectory ==
    LET t == PlaylistTitle(remoteTitle)
        s == sanitize_filename(t)
    IN  /\ Len(s) = Len(t)
        /\ s = Underscored(t)
        /\ Elems(s) \cap PathBreaking = {}
        /\ sanitize_filename(s) = s
        /\ t = ExampleTitle =>
              s = <<"A", "_", "B", "_", " ", "_", "M", "i", "x", "_">>
        /\ \A k \in Positions("mkdir") :
              trace[k].dir = JoinPath(PathOf(args.output), Underscored(t))
        /\ pc = "playlist_dl" =>
              playlist_dir = JoinPath(PathOf(args.output), Underscored(t))

C6_Witness ==
    /\ Positions("mkdir") # {}
    /\ remoteTitle = <<"A", "/", "*">>
    /\ playlist_dir.parts = PathOf(args.output).parts \o << <<"A", "_", "_">> >>

-----------------------------------------------------------------------------
(* The form front-end, app.py: one script run with the button pressed *)

FormatNames == {"MP3 (Lossy)", "WAV (Lossless)", "FLAC (Lossless)"}

format_map(name) ==
    CASE name = "WAV (Lossless)" -> "wav"
      [] name = "FLAC (Lossless)" -> "flac"
      [] name = "MP3 (Lossy)" -> "mp3"

Mp3Qualities == {"320k", "256k", "192k", "128k"}

\* the texts url.startswith() is given; a form URL is a sequence of pieces
\* of text, and only these pieces begin with one of them
KnownPrefixes == {"https://www.youtube.com/", "https://youtube.com/",
                  "https://youtu.be/", "https://music.youtube"}

StartsWithKnownPrefix(url) == Len(url) >= 1 /\ url[1] \in KnownPrefixes

FormUrls ==
    {<<>>, <<"x">>, <<"http://", "x">>, <<"x", "https://youtu.be/">>}
        \cup {<<p, "x">> : p \in KnownPrefixes}
        \cup {<<"https://youtu.be/", "x", "?list=", "x">>}

ErrNoUrl == [t |-> "error", msg |-> "Please enter a YouTube URL"]
ErrBadUrl == [t |-> "error", msg |-> "Please enter a valid YouTube URL"]
ErrNoFfmpeg == [t |-> "error", msg |-> "FFmpeg not found!"]
BannerSuccess == [t |-> "success", msg |-> "Download completed successfully!"]
BannerError == [t |-> "error", msg |-> "An error occurred"]

\* lines 34-57: the sidebar computes selected_format and quality
AppSidebar ==
    /\ app_pc = "rerun"
    /\ LET selected_format == format_map(form.audio_format)
       IN  script' = [selected_format |-> selected_format,
                      quality |-> IF selected_format = "mp3"
                                  THEN form.mp3_quality ELSE "best"]
    /\ app_pc' = "button"
    /\ UNCHANGED <<envVars, cliVars, form, ui, launches, child, app_exc>>

\* where the handler goes once the checks have shown their errors
AfterValidationStop(errors) == IF errors = <<>> THEN "launch" ELSE "finished"

AfterValidation(errors) == "launch"

\* lines 77-100: the three checks, each of which only shows a message
AppValidate ==
    /\ app_pc = "button"
    /\ LET e1 == IF form.url = <<>> THEN <<ErrNoUrl>> ELSE <<>>
           e2 == IF ~StartsWithKnownPrefix(form.url) THEN <<ErrBadUrl>> ELSE <<>>
           e3 == IF FfmpegMissing(ffmpeg) THEN <<ErrNoFfmpeg>> ELSE <<>>
       IN  /\ ui' = ui \o e1 \o e2 \o e3
           /\ app_pc' = AfterValidation(e1 \o e2 \o e3)
    /\ UNCHANGED <<envVars, cliVars, form, script, launches, child, app_exc>>

Interpreter == "/opt/anaconda3/bin/python/"

\* every stdout a child may produce: up to MaxLines lines, numbered in the
\* order of emission, each either valid UTF-8 or not
ChildOutputs ==
    UNION {{[k \in 1..n |-> [n |-> k, utf8 |-> d[k]]] : d \in [1..n -> BOOLEAN]}
              : n \in 0..MaxLines}

\* lines 103-115 and line 8: Popen is handed the argument vector; it raises
\* OSError or starts the child
AppLaunch ==
    /\ app_pc = "launch"
    /\ launches' = Append(launches,
                          <<Interpreter, "run_download.py", "-f",
                            script.selected_format, "-q", script.quality,
                            form.url>>)
    /\ \/ /\ app_exc' = "OSError"
          /\ app_pc' = "except"
          /\ UNCHANGED child
       \/ /\ \E out \in ChildOutputs, rc \in {0, 1} :
                /\ ~ffmpeg => rc = 1
                /\ child' = [emitted |-> out, unread |-> out, rc |-> rc]
          /\ app_pc' = "drain"
          /\ UNCHANGED app_exc
    /\ UNCHANGED <<envVars, cliVars, form, script, ui>>

\* lines 9-10: one readline() that returns a line, shown with st.text;
\* decoding a line that is not UTF-8 raises UnicodeDecodeError
AppReadLine ==
    /\ app_pc = "drain"
    /\ child.unread # <<>>
    /\ LET line == Head(child.unread)
       IN  /\ child' = [child EXCEPT !.unread = Tail(@)]
           /\ IF line.utf8
              THEN /\ ui' = Append(ui, [t |-> "text", n |-> line.n])
                   /\ UNCHANGED <<app_pc, app_exc>>
              ELSE /\ app_exc' = "UnicodeDecodeError"
                   /\ app_pc' = "except"
                   /\ UNCHANGED ui
    /\ UNCHANGED <<envVars, cliVars, form, script, launches>>

\* the banner shown when run_and_display_stdout has returned
BannerChecksStatus(rc) == IF rc = 0 THEN BannerSuccess ELSE BannerError

BannerAfterDrain(rc) == BannerSuccess

\* line 9 at end of file and line 116
AppDrained ==
    /\ app_pc = "drain"
    /\ child.unread = <<>>
    /\ ui' = Append(ui, BannerAfterDrain(child.rc))
    /\ app_pc' = "finished"
    /\ UNCHANGED <<envVars, cliVars, form, script, launches, child, app_exc>>

\* lines 117-119: the handler shows the error and raises it again
AppExcept ==
    /\ app_pc = "except"
    /\ ui' = Append(ui, BannerError)
    /\ app_pc' = "raised"
    /\ UNCHANGED <<envVars, cliVars, form, script, launches, child, app_exc>>

NextApp ==
    \/ AppSidebar
    \/ AppValidate
    \/ AppLaunch
    \/ AppReadLine
    \/ AppDrained
    \/ AppExcept

\* the button has been pressed with any values in the widgets
InitApp ==
    /\ ffmpeg \in BOOLEAN
    /\ remoteTitle = MissingTitle
    /\ fs = BaseDirs
    /\ made = {}
    /\ entry = "api"
    /\ args = NoObject
    /\ pc = "off"
    /\ status = "running"
    /\ self = NoObject
    /\ heap = NoObject
    /\ snap = NoObject
    /\ urls = <<>>
    /\ i = 0
    /\ total = 0
    /\ successful = 0
    /\ playlist_dir = NoObject
    /\ trace = <<>>
    /\ app_pc = "rerun"
    /\ form \in [url : FormUrls, audio_format : FormatNames,
                 mp3_quality : Mp3Qualities]
    /\ script = NoObject
    /\ ui = <<>>
    /\ launches = <<>>
    /\ child = NoObject
    /\ app_exc = "none"

SpecApp == InitApp /\ [][NextApp]_vars

-----------------------------------------------------------------------------
(* Properties of the form front-end *)

AppStopped == app_pc \in {"finished", "raised"}

Banners == {k \in 1..Len(ui) : ui[k] \in {BannerSuccess, BannerError}}

ShownLines == SelectSeq(ui, LAMBDA e : e.t = "text")

Emitted == IF child = NoObject THEN <<>> ELSE child.emitted

ExpectedFormat ==
    CASE form.audio_format = "MP3 (Lossy)" -> "mp3"
      [] form.audio_format = "WAV (Lossless)" -> "wav"
      [] form.audio_format = "FLAC (Lossless)" -> "flac"

\* C8: the validation errors are shown and never stop the flow: whatever
\* checks failed, exactly one launch follows, with -f <format> -q <quality>
\* <url>, the quality being "best" for wav and flac.
C8_ValidationNeverStops ==
    /\ app_pc \in {"rerun", "button", "launch"} => launches = <<>>
    /\ app_pc \notin {"rerun", "button", "launch"} =>
          /\ Len(launches) = 1
          /\ SubSeq(launches[1], 2, 7) =
                <<"run_download.py", "-f", ExpectedFormat, "-q",
                  IF ExpectedFormat \in {"wav", "flac"} THEN "best"
                  ELSE form.mp3_quality,
                  form.url>>
    /\ app_pc \notin {"rerun", "button"} =>
          /\ (form.url = <<>>) <=> (\E k \in 1..Len(ui) : ui[k] = ErrNoUrl)
          /\ (\A p \in KnownPrefixes : form.url = <<>> \/ form.url[1] # p)
                <=> (\E k \in 1..Len(ui) : ui[k] = ErrBadUrl)
          /\ ~ffmpeg <=> (\E k \in 1..Len(ui) : ui[k] = ErrNoFfmpeg)

C8_Witness ==
    /\ AppStopped
    /\ form.url = <<>>
    /\ ~ffmpeg
    /\ form.audio_format = "FLAC (Lossless)"
    /\ SubSeq(ui, 1, 3) = <<ErrNoUrl, ErrBadUrl, ErrNoFfmpeg>>
    /\ launches = << <<Interpreter, "run_download.py", "-f", "flac", "-q",
                       "best", <<>> >> >>

\* C10 as stated: one banner per submission, shown only after every line
\* of the child's output has been displayed in emission order; success
\* exactly when nothing raised, error exactly when something raised, which
\* is then raised again.
C10_BannerAfterAllLines ==
    /\ ~AppStopped => Banners = {}
    /\ AppStopped =>
          /\ Cardinality(Banners) = 1
          /\ Len(ShownLines) = Len(Emitted)
          /\ \A k \in 1..Len(ShownLines) : ShownLines[k].n = Emitted[k].n
          /\ Last(ui) \in {BannerSuccess, BannerError}
          /\ (Last(ui) = BannerSuccess) <=> (app_exc = "none")
          /\ (Last(ui) = BannerError) <=> (app_pc = "raised")

\* C10 amended: one banner per submission, the last thing shown; the
\* success banner exactly when launching and draining raised nothing,
\* whatever the child's exit status, and then after every line of the
\* child's output in emission order; the error banner exactly when
\* launching or draining raised, after the lines read before the failure,
\* and the exception is raised again.
C10_OneBannerPerSubmission ==
    /\ ~AppStopped => Banners = {}
    /\ AppStopped =>
          /\ Cardinality(Banners) = 1
          /\ Last(ui) \in {BannerSuccess, BannerError}
          /\ Len(ShownLines) <= Len(Emitted)
          /\ \A k \in 1..Len(ShownLines) : ShownLines[k].n = Emitted[k].n
          /\ (Last(ui) = BannerSuccess) <=> (app_exc = "none")
          /\ Last(ui) = BannerSuccess =>
                (app_pc = "finished" /\ Len(ShownLines) = Len(Emitted))
          /\ (Last(ui) = BannerError) <=> (app_exc # "none")
          /\ Last(ui) = BannerError =>
                /\ app_pc = "raised"
                /\ app_exc = "UnicodeDecodeError" =>
                      (/\ Len(ShownLines) < Len(Emitted)
                       /\ ~Emitted[Len(ShownLines) + 1].utf8)
                /\ app_exc = "OSError" => child = NoObject

C10_Witness ==
    /\ app_pc = "finished"
    /\ ~ffmpeg
    /\ child.rc = 1
    /\ Len(child.emitted) >= 2
    /\ Len(ShownLines) = Len(child.emitted)
    /\ Last(ui) = BannerSuccess

=============================================================================
